---- MODULE Spec2Model ----
(***************************************************************************)
(* Model of packages/cli/config.ts: the configuration pipeline             *)
(* readConfigFile (existsSync -> esbuild.build -> requireFromString ->     *)
(* isValidConfig -> version check) and the scaffold templater              *)
(* templateQuartzFolder.                                                   *)
(*                                                                         *)
(* JavaScript values are records with a type tag `t`:                      *)
(*   primitive      [t, s]            s is the literal of a string/number  *)
(*   field value    [t, s, a]         a is the element sequence of arrays  *)
(*   components     [t, keys]         keys are the own property names      *)
(*   configuration  [t, keys, f]      f maps every name to its value       *)
(*   default export [t, keys, components, configuration]                   *)
(***************************************************************************)
EXTENDS Integers, Sequences, FiniteSets, TLC

\* ---------------------------------------------------------------- bounds

\* Longest ignorePatterns array a configuration module exports.
MaxPatterns == 2

\* Longest seed value, in lexemes, handed to templateQuartzFolder.
MaxValueLen == 2

\* Most segments (a placeholder or a piece of other text) of a template.
MaxSegments == 3

\* ------------------------------------------------------------- constants

QUARTZ == "quartz"
QUARTZ_CONFIG_NAME == "quartz.config.js"

\* `version` of ./package.json, the running tool's version.
version == "4.0.0"

requiredKeys == <<"plugins", "configuration", "components">>

requiredComponentsNoHome == <<"pageSingle", "pageList", "document">>

requiredComponents == <<"pageSingle", "pageList", "pageHome", "document">>

\* t.object({quartzVersion: t.string(), name: t.string(),
\*           ignorePatterns: t.array(t.string())}), in declaration order.
configSchema ==
  << [key |-> "quartzVersion", type |-> "string"],
     [key |-> "name", type |-> "string"],
     [key |-> "ignorePatterns", type |-> "array"] >>

Range(f) == {f[i] : i \in DOMAIN f}

\* ------------------------------------------------------------- JS values

Prim(t, s) == [t |-> t, s |-> s]

FieldVal(t, s, a) == [t |-> t, s |-> s, a |-> a]

UndefField == FieldVal("undefined", "", <<>>)

NoComponents == [t |-> "undefined", keys |-> {}]

ConfKeys == {"quartzVersion", "name", "ignorePatterns", "theme"}

NoConfiguration ==
  [t |-> "undefined", keys |-> {}, f |-> [k \in ConfKeys |-> UndefField]]

UndefinedExport ==
  [t |-> "undefined", keys |-> {}, components |-> NoComponents,
   configuration |-> NoConfiguration]

\* ------------------------------------------- inputs: what a module exports

PatternElems == {Prim("string", "private"), Prim("number", "1")}

PatternArrays ==
  UNION {[1..n -> PatternElems] : n \in 0..MaxPatterns}

Absent == FieldVal("absent", "", <<>>)

QuartzVersionChoices ==
  {Absent, FieldVal("string", "4.0.0", <<>>),
   FieldVal("string", "3.9.0", <<>>), FieldVal("number", "4", <<>>)}

NameChoices ==
  {Absent, FieldVal("string", "My Site", <<>>), FieldVal("number", "7", <<>>)}

IgnorePatternsChoices ==
  {Absent, FieldVal("string", "private", <<>>)}
    \cup {FieldVal("array", "", a) : a \in PatternArrays}

ThemeChoices == {Absent, FieldVal("string", "dark", <<>>)}

\* The object literal {quartzVersion: q, name: n, ignorePatterns: i, theme: th},
\* a property left out when its choice is Absent.
ConfObject(q, n, i, th) ==
  LET ch == [k \in ConfKeys |->
               CASE k = "quartzVersion" -> q
                 [] k = "name" -> n
                 [] k = "ignorePatterns" -> i
                 [] OTHER -> th]
  IN  [t |-> "object",
       keys |-> {k \in ConfKeys : ch[k] # Absent},
       f |-> [k \in ConfKeys |-> IF ch[k] = Absent THEN UndefField ELSE ch[k]]]

NonObjectConf(t) == [t |-> t, keys |-> {}, f |-> [k \in ConfKeys |-> UndefField]]

ConfigurationValues ==
  {ConfObject(q, n, i, th) :
     q \in QuartzVersionChoices, n \in NameChoices,
     i \in IgnorePatternsChoices, th \in ThemeChoices}
    \cup {NonObjectConf(t) : t \in {"undefined", "null", "string", "array"}}

TopLevelNames == {"plugins", "configuration", "components"}

ComponentNames == {"pageSingle", "pageList", "pageHome", "document"}

ComponentsValues ==
  {[t |-> "object", keys |-> ks] : ks \in SUBSET ComponentNames}
    \cup {[t |-> t, keys |-> {}] : t \in {"undefined", "null", "string"}}

\* An object default export: own keys ks; a key that is not an own property
\* reads as undefined.
ExportObject(ks, comp, conf) ==
  [t |-> "object", keys |-> ks,
   components |-> IF "components" \in ks THEN comp ELSE NoComponents,
   configuration |-> IF "configuration" \in ks THEN conf ELSE NoConfiguration]

ExportValues ==
  {ExportObject(ks, comp, conf) :
     ks \in SUBSET TopLevelNames,
     comp \in ComponentsValues, conf \in ConfigurationValues}
    \cup {[UndefinedExport EXCEPT !.t = t] : t \in {"undefined", "null", "string"}}

\* What the file quartz.config.js holds: nothing (absent), a module esbuild
\* cannot bundle, a module that throws while it runs, or a module with a
\* default export.
AbsentFile == [kind |-> "absent", msg |-> "", val |-> UndefinedExport]

ThrowMessages == {"boom", "siteName is not defined"}

FileContents ==
  {[kind |-> "syntaxError", msg |-> "Unexpected token", val |-> UndefinedExport]}
    \cup {[kind |-> "throws", msg |-> m, val |-> UndefinedExport] : m \in ThrowMessages}
    \cup {[kind |-> "exports", msg |-> "", val |-> v] : v \in ExportValues}

ValidExport(q) ==
  ExportObject(TopLevelNames,
               [t |-> "object", keys |-> ComponentNames],
               ConfObject(FieldVal("string", q, <<>>),
                          FieldVal("string", "My Site", <<>>),
                          FieldVal("array", "", <<>>), Absent))

\* The contents an edit of the file between two loads leaves behind.
EditedContents ==
  {c \in FileContents : c.kind # "exports"}
    \cup {[kind |-> "exports", msg |-> "", val |-> v] :
            v \in {ValidExport("4.0.0"), ValidExport("3.9.0"), UndefinedExport,
                   [ValidExport("4.0.0") EXCEPT
                      !.components.keys = @ \ {"pageHome"}]}}

\* --------------------------------------------------------- pure functions

\* getConfigFilePath: path.resolve(path.join(directory, QUARTZ, QUARTZ_CONFIG_NAME)).
getConfigFilePath(directory) == <<directory, QUARTZ, QUARTZ_CONFIG_NAME>>

\* A console.log / console.error call: the message's kind and what it names.
Diag(m, a) == [m |-> m, a |-> a]

\* Reading a property of undefined or null throws a TypeError.
Nullish(v) == v.t \in {"undefined", "null"}

TypeErrorMessage == "Cannot read properties of undefined (reading 'hasOwnProperty')"

\* v.hasOwnProperty(key) for a v that is not nullish: a primitive has none of
\* the names asked for.
hasOwnProperty(v, key) == v.t = "object" /\ key \in v.keys

\* for (const key of required) if (!obj.hasOwnProperty(key)) return key;
\* "" when the loop ends without returning.
RECURSIVE FirstMissing(_, _, _)
FirstMissing(obj, required, i) ==
  IF i > Len(required) THEN ""
  ELSE IF ~hasOwnProperty(obj, required[i]) THEN required[i]
  ELSE FirstMissing(obj, required, i + 1)

typeOf(v) == v.t

\* myzod t.string().parse: typeof value !== 'string' is a ValidationError.
StringParse(v) ==
  IF v.t = "string" THEN <<>>
  ELSE <<"expected type to be string but got", typeOf(v)>>

\* myzod t.array(t.string()).parse: Array.isArray, then every element in turn.
RECURSIVE ElementsParse(_, _)
ElementsParse(a, i) ==
  IF i > Len(a) THEN <<>>
  ELSE IF StringParse(a[i]) # <<>> THEN <<"error at index", ToString(i - 1)>> \o StringParse(a[i])
  ELSE ElementsParse(a, i + 1)

ArrayParseLax(v) ==
  IF v.t \in {"array", "string"} THEN <<>>
  ELSE <<"expected an array but got", typeOf(v)>>

ArrayParse(v) ==
  IF v.t # "array" THEN <<"expected an array but got", typeOf(v)>>
  ELSE ElementsParse(v.a, 1)

\* The fields of the shape in declaration order, the first failure returned.
RECURSIVE ShapeParse(_, _, _)
ShapeParse(conf, shape, i) ==
  IF i > Len(shape) THEN <<>>
  ELSE LET v == conf.f[shape[i].key]
           e == IF shape[i].type = "string" THEN StringParse(v) ELSE ArrayParse(v)
       IN  IF e # <<>> THEN <<"error parsing object at path", shape[i].key>> \o e
           ELSE ShapeParse(conf, shape, i + 1)

ShapeKeys(shape) == {shape[i].key : i \in DOMAIN shape}

\* configSchema.try(value): <<>> when the value parses, else the message of
\* the ValidationError. A myzod object type rejects a non-object, and (its
\* allowUnknown option being off) an object with a key the shape does not name.
SchemaTry(shape, conf) ==
  IF conf.t # "object" THEN <<"expected type to be object but got", typeOf(conf)>>
  ELSE IF conf.keys \ ShapeKeys(shape) # {}
    THEN <<"unexpected keys on object">>
  ELSE ShapeParse(conf, shape, 1)

\* isValidConfig(cfg): ret is "true", "false", or "throw" (a TypeError out of
\* a hasOwnProperty call on undefined or null); out is what it logged.
isValidConfigSchemaFirst(cfg) ==
  IF Nullish(cfg) THEN [ret |-> "throw", out |-> <<>>]
  ELSE IF FirstMissing(cfg, requiredKeys, 1) # ""
    THEN [ret |-> "false",
          out |-> <<Diag("missing required key", <<FirstMissing(cfg, requiredKeys, 1)>>)>>]
  ELSE IF SchemaTry(configSchema, cfg.configuration) # <<>>
    THEN [ret |-> "false",
          out |-> <<Diag("doesn't match schema", SchemaTry(configSchema, cfg.configuration))>>]
  ELSE IF Nullish(cfg.components) THEN [ret |-> "throw", out |-> <<>>]
  ELSE IF FirstMissing(cfg.components, requiredComponents, 1) # ""
    THEN [ret |-> "false",
          out |-> <<Diag("missing required component",
                         <<FirstMissing(cfg.components, requiredComponents, 1)>>)>>]
  ELSE [ret |-> "true", out |-> <<>>]

isValidConfig(cfg) ==
  IF Nullish(cfg) THEN [ret |-> "throw", out |-> <<>>]
  ELSE IF FirstMissing(cfg, requiredKeys, 1) # ""
    THEN [ret |-> "false",
          out |-> <<Diag("missing required key", <<FirstMissing(cfg, requiredKeys, 1)>>)>>]
  ELSE IF Nullish(cfg.components) THEN [ret |-> "throw", out |-> <<>>]
  ELSE IF FirstMissing(cfg.components, requiredComponents, 1) # ""
    THEN [ret |-> "false",
          out |-> <<Diag("missing required component",
                         <<FirstMissing(cfg.components, requiredComponents, 1)>>)>>]
  ELSE IF SchemaTry(configSchema, cfg.configuration) # <<>>
    THEN [ret |-> "false",
          out |-> <<Diag("doesn't match schema", SchemaTry(configSchema, cfg.configuration))>>]
  ELSE [ret |-> "true", out |-> <<>>]

\* ------------------------------------------------------ text substitution

\* Text is a sequence of lexemes: "{{" and "}}", a key, "$", "&", the
\* backtick and the single quote (written "BACKTICK" and "QUOTE"), and
\* pieces of other text. The token of key k is "{{" k "}}".
Token(k) == <<"{{", k, "}}">>

Matches(s, pattern, i) ==
  /\ i + Len(pattern) - 1 <= Len(s)
  /\ SubSeq(s, i, i + Len(pattern) - 1) = pattern

\* s.indexOf(pattern), counted from 1; 0 when there is none.
IndexOf(s, pattern) ==
  IF \E i \in 1..Len(s) : Matches(s, pattern, i)
    THEN CHOOSE i \in 1..Len(s) :
           Matches(s, pattern, i) /\ \A j \in 1..(i - 1) : ~Matches(s, pattern, j)
    ELSE 0

\* GetSubstitution for a string pattern (no captures): $$ is "$", $& the
\* match, $ BACKTICK the text before it, $ QUOTE the text after it; any
\* other $ stays.
RECURSIVE GetSubstitution(_, _, _, _, _)
GetSubstitution(replacement, i, matched, before, after) ==
  IF i > Len(replacement) THEN <<>>
  ELSE IF replacement[i] = "$" /\ i < Len(replacement)
            /\ replacement[i + 1] \in {"$", "&", "BACKTICK", "QUOTE"}
    THEN (CASE replacement[i + 1] = "$" -> <<"$">>
            [] replacement[i + 1] = "&" -> matched
            [] replacement[i + 1] = "BACKTICK" -> before
            [] OTHER -> after)
         \o GetSubstitution(replacement, i + 2, matched, before, after)
  ELSE <<replacement[i]>> \o GetSubstitution(replacement, i + 1, matched, before, after)

\* String.prototype.replace(pattern, replacement) with a string pattern: the
\* first occurrence only.
replace(s, pattern, replacement) ==
  LET i == IndexOf(s, pattern)
      before == SubSeq(s, 1, i - 1)
      after == SubSeq(s, i + Len(pattern), Len(s))
  IN  IF i = 0 THEN s
      ELSE before \o GetSubstitution(replacement, 1, pattern, before, after) \o after

\* for (const [k, v] of Object.entries(cfg)) s = s.replace(Token(k), v)
RECURSIVE SubstituteAll(_, _, _)
SubstituteAll(s, entries, i) ==
  IF i > Len(entries) THEN s
  ELSE SubstituteAll(replace(s, Token(entries[i][1]), entries[i][2]), entries, i + 1)

ValueLexemes == {"My Site", "$", "&", "QUOTE"}

SeedValues == UNION {[1..n -> ValueLexemes] : n \in 0..MaxValueLen}

\* Object.entries of a UserProvidedConfig {quartzVersion, name}.
Seeds == {<< <<"quartzVersion", q>>, <<"name", n>> >> : q \in SeedValues, n \in SeedValues}

Segments == {Token("name"), Token("quartzVersion"), Token("other"), <<"export default">>}

RECURSIVE Flatten(_, _)
Flatten(segs, i) == IF i > Len(segs) THEN <<>> ELSE segs[i] \o Flatten(segs, i + 1)

\* The texts of the bundled template's quartz.config.js.
Templates ==
  {Flatten(segs, 1) : segs \in UNION {[1..n -> Segments] : n \in 0..MaxSegments}}

\* ------------------------------------------------------------------ state

Directories == {"site"}

Paths == {getConfigFilePath(d) : d \in Directories}

NoOutcome == [kind |-> "none", err |-> "", val |-> UndefinedExport]

NotCached == [has |-> FALSE, val |-> UndefinedExport]

VARIABLES
  fs,        \* the file system: what each configuration file path holds
  cache,     \* the process's module registry (require.cache), by file name
  pc,        \* where the running readConfigFile call is
  fp,        \* readConfigFile's local fp
  mod,       \* readConfigFile's local mod, the bundled module
  cfg,       \* readConfigFile's local cfg
  valid,     \* what isValidConfig(cfg) did: "none" before the call
  log,       \* the console output of the call so far
  calls,     \* the collaborators the call has invoked, in order
  outcome,   \* how the call ended
  prev,      \* how the process's previous call ended, and on which content
  tpc,       \* where the templateQuartzFolder call is
  template,  \* the text of the bundled template's quartz.config.js
  seed,      \* Object.entries of templateQuartzFolder's cfg
  tfile,     \* the text of the project's quartz.config.js
  sText      \* templateQuartzFolder's local s

loadVars == <<fs, cache, pc, fp, mod, cfg, valid, log, calls, outcome, prev>>

tplVars == <<tpc, template, seed, tfile, sText>>

vars == <<loadVars, tplVars>>

NoPrev == [outcome |-> NoOutcome, content |-> AbsentFile]

LoadIdle ==
  /\ cache = [p \in Paths |-> NotCached]
  /\ pc = "idle"
  /\ fp = getConfigFilePath("site")
  /\ mod = AbsentFile
  /\ cfg = UndefinedExport
  /\ valid = "none"
  /\ log = <<>>
  /\ calls = <<>>
  /\ outcome = NoOutcome
  /\ prev = NoPrev

TemplateIdle ==
  /\ tpc = "idle"
  /\ tfile = <<>>
  /\ sText = <<>>

Init ==
  /\ fs \in [Paths -> FileContents \cup {AbsentFile}]
  /\ LoadIdle
  /\ TemplateIdle
  /\ template = <<>>
  /\ seed = <<>>

\* ------------------------------------------------------------ collaborators

existsSyncAlways(files, p) == TRUE

\* fs.existsSync(fp)
existsSync(files, p) == files[p].kind # "absent"

\* esbuild.build({entryPoints: [fp], write: false, bundle: true, ...}): the
\* bundle's text, or a rejection when the entry cannot be read or parsed.
esbuildBuild(files, p) ==
  IF files[p].kind = "absent"
    THEN [ok |-> FALSE, err |-> "Could not resolve", text |-> AbsentFile]
  ELSE IF files[p].kind = "syntaxError"
    THEN [ok |-> FALSE, err |-> files[p].msg, text |-> AbsentFile]
  ELSE [ok |-> TRUE, err |-> "", text |-> files[p]]

\* Running a bundle: it throws, or it leaves its exports.
Evaluate(text) ==
  IF text.kind = "exports" THEN [threw |-> FALSE, err |-> "", default |-> text.val]
  ELSE IF text.kind = "throws" THEN [threw |-> TRUE, err |-> text.msg, default |-> UndefinedExport]
  ELSE [threw |-> TRUE, err |-> TypeErrorMessage, default |-> UndefinedExport]

\* As require(filename) would: the registry's entry when there is one.
requireCached(c, text, filename) ==
  IF c[filename].has
    THEN [threw |-> FALSE, err |-> "", default |-> c[filename].val, cache |-> c]
  ELSE LET r == Evaluate(text)
       IN  [threw |-> r.threw, err |-> r.err, default |-> r.default,
            cache |-> IF r.threw THEN c
                      ELSE [c EXCEPT ![filename] = [has |-> TRUE, val |-> r.default]]]

\* requireFromString(mod, fp).default: a new Module compiled from the text,
\* never entered in the registry.
requireFromString(c, text, filename) ==
  LET r == Evaluate(text)
  IN  [threw |-> r.threw, err |-> r.err, default |-> r.default, cache |-> c]

\* ---------------------------------------------------------- readConfigFile

Exit(lines) ==
  /\ log' = log \o lines
  /\ outcome' = [kind |-> "exit", err |-> "1", val |-> UndefinedExport]
  /\ pc' = "exited"

Reject(message) ==
  /\ outcome' = [kind |-> "rejected", err |-> message, val |-> UndefinedExport]
  /\ pc' = "done"

\* readConfigFile(directory) is called: fp is resolved.
Call ==
  /\ pc = "idle"
  /\ \E directory \in Directories : fp' = getConfigFilePath(directory)
  /\ pc' = "exists"
  /\ UNCHANGED <<fs, cache, mod, cfg, valid, log, calls, outcome, prev>>
  /\ UNCHANGED tplVars

\* if (!fs.existsSync(fp)) { console.error(...); console.log(hint); process.exit(1) }
CheckExists ==
  /\ pc = "exists"
  /\ calls' = Append(calls, "existsSync")
  /\ IF ~existsSync(fs, fp)
       THEN Exit(<<Diag("Couldn't find Quartz configuration", fp),
                   Diag("hint: quartz new", <<>>)>>)
       ELSE pc' = "build" /\ UNCHANGED <<log, outcome>>
  /\ UNCHANGED <<fs, cache, fp, mod, cfg, valid, prev>>
  /\ UNCHANGED tplVars

BuildNoExit ==
  /\ pc = "build"
  /\ calls' = Append(calls, "esbuild.build")
  /\ LET out == esbuildBuild(fs, fp)
     IN  /\ log' = IF out.ok THEN log
                   ELSE log \o <<Diag("Couldn't parse Quartz configuration", fp),
                                 Diag("Reason", <<out.err>>),
                                 Diag("hint: npm install", <<>>)>>
         /\ mod' = out.text
         /\ pc' = "load"
  /\ UNCHANGED <<fs, cache, fp, cfg, valid, outcome, prev>>
  /\ UNCHANGED tplVars

\* const out = await esbuild.build(...).catch(err => { ...; process.exit(1) })
\* const mod = out.outputFiles![0].text
Build ==
  /\ pc = "build"
  /\ calls' = Append(calls, "esbuild.build")
  /\ LET out == esbuildBuild(fs, fp)
     IN  IF ~out.ok
           THEN /\ Exit(<<Diag("Couldn't parse Quartz configuration", fp),
                          Diag("Reason", <<out.err>>),
                          Diag("hint: npm install", <<>>)>>)
                /\ UNCHANGED mod
           ELSE /\ mod' = out.text
                /\ pc' = "load"
                /\ UNCHANGED <<log, outcome>>
  /\ UNCHANGED <<fs, cache, fp, cfg, valid, prev>>
  /\ UNCHANGED tplVars

LoadSwallow ==
  /\ pc = "load"
  /\ calls' = Append(calls, "requireFromString")
  /\ LET r == requireFromString(cache, mod, fp)
     IN  /\ cache' = r.cache
         /\ cfg' = r.default
         /\ pc' = "validate"
  /\ UNCHANGED <<fs, fp, mod, valid, log, outcome, prev>>
  /\ UNCHANGED tplVars

\* const cfg = requireFromString(mod, fp).default: an exception of the module
\* leaves readConfigFile as the rejection of its promise.
Load ==
  /\ pc = "load"
  /\ calls' = Append(calls, "requireFromString")
  /\ LET r == requireFromString(cache, mod, fp)
     IN  /\ cache' = r.cache
         /\ IF r.threw
              THEN Reject(r.err) /\ UNCHANGED cfg
              ELSE cfg' = r.default /\ pc' = "validate" /\ UNCHANGED outcome
  /\ UNCHANGED <<fs, fp, mod, valid, log, prev>>
  /\ UNCHANGED tplVars

\* if (!isValidConfig(cfg)) { console.error("Invalid Quartz configuration"); process.exit(1) }
Validate ==
  /\ pc = "validate"
  /\ calls' = Append(calls, "isValidConfig")
  /\ LET r == isValidConfig(cfg)
     IN  /\ valid' = r.ret
         /\ CASE r.ret = "throw" ->
                   Reject(TypeErrorMessage) /\ log' = log \o r.out
              [] r.ret = "false" ->
                   Exit(r.out \o <<Diag("Invalid Quartz configuration", <<>>)>>)
              [] OTHER ->
                   pc' = "version" /\ log' = log \o r.out /\ UNCHANGED outcome
  /\ UNCHANGED <<fs, cache, fp, mod, cfg, prev>>
  /\ UNCHANGED tplVars

VersionWarning(q) ==
  <<Diag("version in configuration is different from current Quartz version",
         <<q, version>>),
    Diag("hint: visit config.ts", <<>>)>>

VersionCheckStrict ==
  /\ pc = "version"
  /\ calls' = Append(calls, "versionCheck")
  /\ IF cfg.configuration.f["quartzVersion"].s # version
       THEN Exit(VersionWarning(cfg.configuration.f["quartzVersion"].s))
       ELSE /\ outcome' = [kind |-> "returned", err |-> "", val |-> cfg]
            /\ pc' = "done"
            /\ UNCHANGED log
  /\ UNCHANGED <<fs, cache, fp, mod, cfg, valid, prev>>
  /\ UNCHANGED tplVars

\* if (cfg.configuration.quartzVersion !== version) { warn }  return cfg
VersionCheck ==
  /\ pc = "version"
  /\ calls' = Append(calls, "versionCheck")
  /\ log' = IF cfg.configuration.f["quartzVersion"] # FieldVal("string", version, <<>>)
              THEN log \o VersionWarning(cfg.configuration.f["quartzVersion"].s)
              ELSE log
  /\ outcome' = [kind |-> "returned", err |-> "", val |-> cfg]
  /\ pc' = "done"
  /\ UNCHANGED <<fs, cache, fp, mod, cfg, valid, prev>>
  /\ UNCHANGED tplVars

\* ------------------------------------------------------------- environment

ClearCall ==
  /\ mod' = AbsentFile
  /\ cfg' = UndefinedExport
  /\ valid' = "none"
  /\ log' = <<>>
  /\ calls' = <<>>
  /\ outcome' = NoOutcome

\* The caller takes the result (or catches the rejection) and goes on in the
\* same process.
Resume ==
  /\ pc = "done"
  /\ pc' = "idle"
  /\ prev' = [outcome |-> outcome, content |-> fs[fp]]
  /\ ClearCall
  /\ UNCHANGED <<fs, cache, fp>>
  /\ UNCHANGED tplVars

\* After process.exit(1) the tool is started again: a new process.
Restart ==
  /\ pc = "exited"
  /\ pc' = "idle"
  /\ cache' = [p \in Paths |-> NotCached]
  /\ prev' = NoPrev
  /\ ClearCall
  /\ UNCHANGED <<fs, fp>>
  /\ UNCHANGED tplVars

\* The user edits the configuration file between two loads.
WriteFile ==
  /\ pc = "idle"
  /\ \E p \in Paths, c \in EditedContents :
       /\ c # fs[p]
       /\ fs' = [fs EXCEPT ![p] = c]
  /\ UNCHANGED <<cache, pc, fp, mod, cfg, valid, log, calls, outcome, prev>>
  /\ UNCHANGED tplVars

DeleteFile ==
  /\ pc = "idle"
  /\ \E p \in Paths :
       /\ fs[p].kind # "absent"
       /\ fs' = [fs EXCEPT ![p] = AbsentFile]
  /\ UNCHANGED <<cache, pc, fp, mod, cfg, valid, log, calls, outcome, prev>>
  /\ UNCHANGED tplVars

Next ==
  \/ Call
  \/ CheckExists
  \/ Build
  \/ Load
  \/ Validate
  \/ VersionCheck
  \/ Resume
  \/ Restart
  \/ WriteFile
  \/ DeleteFile

Spec == Init /\ [][Next]_vars

\* ---------------------------------------------------- templateQuartzFolder

InitTemplate ==
  /\ fs = [p \in Paths |-> AbsentFile]
  /\ LoadIdle
  /\ TemplateIdle
  /\ template \in Templates
  /\ seed \in Seeds

\* await fs.promises.cp(parentFolder, quartzDirectory, { recursive: true })
CopyTemplate ==
  /\ tpc = "idle"
  /\ tfile' = template
  /\ tpc' = "copied"
  /\ UNCHANGED <<template, seed, sText, loadVars>>

\* const buf = await fs.promises.readFile(configFilePath); let s = buf.toString()
ReadConfig ==
  /\ tpc = "copied"
  /\ sText' = tfile
  /\ tpc' = "read"
  /\ UNCHANGED <<template, seed, tfile, loadVars>>

\* the substitution loop, then await fs.promises.writeFile(configFilePath, s)
SubstituteAndWrite ==
  /\ tpc = "read"
  /\ sText' = SubstituteAll(sText, seed, 1)
  /\ tfile' = sText'
  /\ tpc' = "written"
  /\ UNCHANGED <<template, seed, loadVars>>

NextTemplate ==
  \/ CopyTemplate
  \/ ReadConfig
  \/ SubstituteAndWrite

SpecTemplate == InitTemplate /\ [][NextTemplate]_vars

\* ------------------------------------------------------------------ claims

Finished == pc \in {"done", "exited"}

Content == fs[fp]

ValidatorDiagKinds ==
  {"missing required key", "missing required component", "doesn't match schema"}

IsValidatorDiag(d) == d.m \in ValidatorDiagKinds

ValidatorDiags == SelectSeq(log, IsValidatorDiag)

HasDiag(m) == \E i \in DOMAIN log : log[i].m = m

\* The three schema fields, present and of their types.
FieldsWellTyped(conf) ==
  /\ conf.f["quartzVersion"].t = "string"
  /\ conf.f["name"].t = "string"
  /\ conf.f["ignorePatterns"].t = "array"
  /\ \A i \in DOMAIN conf.f["ignorePatterns"].a :
       conf.f["ignorePatterns"].a[i].t = "string"

HasTopLevelKeys(v) == v.t = "object" /\ TopLevelNames \subseteq v.keys

HasComponentSlots(v) ==
  v.components.t = "object" /\ ComponentNames \subseteq v.components.keys

StructuralContract(v) ==
  /\ HasTopLevelKeys(v)
  /\ HasComponentSlots(v)
  /\ v.configuration.t = "object"
  /\ FieldsWellTyped(v.configuration)

\* C1: readConfigFile returns a configuration only if it is the module's
\* default export and has every top-level key, every component slot and a
\* configuration of the schema's field types; past the validation gate the
\* candidate in hand satisfies all of them.
C1_ReturnedIsValidated ==
  /\ outcome.kind = "returned" =>
       outcome.val = Content.val /\ StructuralContract(outcome.val)
  /\ pc = "version" => StructuralContract(cfg)

C1_Witness ==
  pc = "done" /\ outcome.kind = "returned" /\ StructuralContract(outcome.val)

\* C2: while a call runs on a path whose file does not exist, neither
\* esbuild.build nor requireFromString is invoked, and the call ends in the
\* missing-configuration error and process.exit.
C2_MissingFailsFast ==
  (pc # "idle" /\ Content.kind = "absent") =>
    /\ pc \in {"exists", "exited"}
    /\ "esbuild.build" \notin Range(calls)
    /\ "requireFromString" \notin Range(calls)
    /\ pc = "exited" =>
         /\ outcome.kind = "exit"
         /\ log = <<Diag("Couldn't find Quartz configuration", fp),
                    Diag("hint: quartz new", <<>>)>>

C2_Witness == pc = "exited" /\ Content.kind = "absent" /\ calls = <<"existsSync">>

Position(seq, x) == CHOOSE i \in DOMAIN seq : seq[i] = x

First(seq, missing) ==
  CHOOSE k \in missing : \A o \in missing : Position(seq, k) <= Position(seq, o)

MissingTop(v) == TopLevelNames \ v.keys

MissingSlots(v) == ComponentNames \ v.components.keys

\* The diagnostic of the first violation in the order top-level keys,
\* component slots, schema.
FirstViolationKind(v) ==
  IF MissingTop(v) # {} THEN "missing required key"
  ELSE IF MissingSlots(v) # {} THEN "missing required component"
  ELSE "doesn't match schema"

FirstViolationNames(v) ==
  IF MissingTop(v) # {}
    THEN <<First(<<"plugins", "configuration", "components">>, MissingTop(v))>>
  ELSE <<First(<<"pageSingle", "pageList", "pageHome", "document">>, MissingSlots(v))>>

\* C3: a call of the validator logs at most one diagnostic; when it rejects,
\* exactly one, naming the first violation in the fixed order; missing only
\* pageHome gives the missing-component diagnostic for pageHome; a schema
\* diagnostic appears only with all keys and all four slots present.
C3_FirstViolationOnly ==
  valid # "none" =>
    /\ Len(ValidatorDiags) <= 1
    /\ valid = "true" => ValidatorDiags = <<>>
    /\ valid = "false" =>
         /\ Len(ValidatorDiags) = 1
         /\ ValidatorDiags[1].m = FirstViolationKind(cfg)
         /\ ValidatorDiags[1].m # "doesn't match schema" =>
              ValidatorDiags[1].a = FirstViolationNames(cfg)
    /\ (HasTopLevelKeys(cfg) /\ cfg.components.t = "object"
          /\ MissingSlots(cfg) = {"pageHome"}) =>
         ValidatorDiags = <<Diag("missing required component", <<"pageHome">>)>>
    /\ HasDiag("doesn't match schema") =>
         HasTopLevelKeys(cfg) /\ HasComponentSlots(cfg)

C3_Witness ==
  /\ valid = "false"
  /\ HasTopLevelKeys(cfg)
  /\ cfg.components.t = "object"
  /\ MissingSlots(cfg) = {"pageHome"}
  /\ ~FieldsWellTyped(cfg.configuration)
  /\ ValidatorDiags = <<Diag("missing required component", <<"pageHome">>)>>

PassedKeyAndSlotChecks ==
  valid \in {"true", "false"} /\ HasTopLevelKeys(cfg) /\ HasComponentSlots(cfg)

\* C4 as stated: the schema step accepts exactly when the three fields are
\* present and well typed, whatever other fields there are.
C4_ExtraFieldsPermitted ==
  PassedKeyAndSlotChecks =>
    (valid = "true" <=> FieldsWellTyped(cfg.configuration))

\* C4 amended: the schema step accepts exactly when the three fields are
\* present and well typed and the configuration has no other field.
C4_SchemaExactFields ==
  PassedKeyAndSlotChecks =>
    (valid = "true" <=>
       /\ FieldsWellTyped(cfg.configuration)
       /\ cfg.configuration.keys \subseteq {"quartzVersion", "name", "ignorePatterns"})

C4_Witness ==
  /\ PassedKeyAndSlotChecks
  /\ valid = "true"
  /\ cfg.configuration.f["ignorePatterns"] = FieldVal("array", "", <<>>)

\* C5: a structural or schema violation always ends in one diagnostic and
\* the invalid-configuration failure; the validator never throws.
C5_NoUnhandledFault ==
  (Finished /\ valid \notin {"none", "true"}) =>
    /\ valid = "false"
    /\ Len(ValidatorDiags) = 1
    /\ log[Len(log)] = Diag("Invalid Quartz configuration", <<>>)
    /\ outcome.kind = "exit"

WarningKind == "version in configuration is different from current Quartz version"

IsWarning(d) == d.m = WarningKind

\* C6: a validated configuration is returned whatever its quartzVersion; the
\* mismatch warning is logged once when the version differs from the tool's,
\* and never otherwise (nor for a configuration that failed validation).
C6_VersionNeverBlocks ==
  Finished =>
    /\ valid = "true" => (pc = "done" /\ outcome = [kind |-> "returned", err |-> "", val |-> cfg])
    /\ Len(SelectSeq(log, IsWarning)) =
         IF valid = "true" /\ cfg.configuration.f["quartzVersion"].s # version
           THEN 1 ELSE 0
    /\ HasDiag(WarningKind) =>
         log[Len(log) - 1] =
           Diag(WarningKind, <<cfg.configuration.f["quartzVersion"].s, version>>)

C6_Witness ==
  /\ pc = "done"
  /\ outcome.kind = "returned"
  /\ outcome.val.configuration.f["quartzVersion"].s = "3.9.0"
  /\ HasDiag(WarningKind)

\* C7: an exception of the running module ends the call as a rejection that
\* carries the module's own message; nothing is logged, and neither the
\* validator nor the version check runs.
C7_LoadErrorTerminal ==
  (Finished /\ Content.kind = "throws") =>
    /\ pc = "done"
    /\ outcome = [kind |-> "rejected", err |-> Content.msg, val |-> UndefinedExport]
    /\ log = <<>>
    /\ valid = "none"
    /\ calls = <<"existsSync", "esbuild.build", "requireFromString">>

C7_Witness ==
  /\ pc = "done"
  /\ Content.kind = "throws"
  /\ outcome.kind = "rejected"
  /\ outcome.err = "siteName is not defined"

StageOrder ==
  <<"existsSync", "esbuild.build", "requireFromString", "isValidConfig", "versionCheck">>

\* C8: the stages of a call are invoked in the order exists, compile, load,
\* validate, version check, each only after the one before succeeded; after a
\* compile failure nothing more is invoked and nothing is returned.
C8_StrictlySequential ==
  /\ Len(calls) <= Len(StageOrder)
  /\ calls = SubSeq(StageOrder, 1, Len(calls))
  /\ "esbuild.build" \in Range(calls) => Content.kind # "absent"
  /\ "requireFromString" \in Range(calls) => Content.kind \in {"throws", "exports"}
  /\ "isValidConfig" \in Range(calls) => Content.kind = "exports"
  /\ "versionCheck" \in Range(calls) => valid = "true"
  /\ outcome.kind = "returned" => calls = StageOrder
  /\ (Content.kind = "syntaxError" /\ pc \notin {"idle", "exists", "build"}) =>
       /\ pc = "exited"
       /\ calls = <<"existsSync", "esbuild.build">>
       /\ valid = "none"
       /\ outcome.kind = "exit"
       /\ log[1] = Diag("Couldn't parse Quartz configuration", fp)

C8_Witness ==
  /\ pc = "exited"
  /\ Content.kind = "syntaxError"
  /\ calls = <<"existsSync", "esbuild.build">>

\* What a call ends with in a process that never loaded anything, as a
\* function of the file's content alone.
FreshLoad(c) ==
  IF c.kind = "absent" THEN "missing"
  ELSE IF c.kind = "syntaxError" THEN "compile"
  ELSE IF c.kind = "throws" THEN "load"
  ELSE isValidConfig(c.val).ret

FreshOutcome(c) ==
  CASE FreshLoad(c) \in {"missing", "compile", "false"} ->
         [kind |-> "exit", err |-> "1", val |-> UndefinedExport]
    [] FreshLoad(c) = "load" ->
         [kind |-> "rejected", err |-> c.msg, val |-> UndefinedExport]
    [] FreshLoad(c) = "throw" ->
         [kind |-> "rejected", err |-> TypeErrorMessage, val |-> UndefinedExport]
    [] OTHER -> [kind |-> "returned", err |-> "", val |-> c.val]

\* C10: however the process's earlier calls ended and whatever the file held
\* then, a call ends as a first call on the file's present content would.
C10_LoadsIndependent ==
  Finished => outcome = FreshOutcome(Content)

C10_Witness ==
  /\ pc = "done"
  /\ outcome.kind = "returned"
  /\ prev.outcome.kind = "returned"
  /\ prev.content # Content
  /\ prev.outcome.val # outcome.val

\* The value put in place of the first occurrence of the token, as it is.
LiteralReplace(text, pattern, value) ==
  LET i == IndexOf(text, pattern)
  IN  IF i = 0 THEN text
      ELSE SubSeq(text, 1, i - 1) \o value \o SubSeq(text, i + Len(pattern), Len(text))

RECURSIVE LiteralSubstituteAll(_, _, _)
LiteralSubstituteAll(text, entries, i) ==
  IF i > Len(entries) THEN text
  ELSE LiteralSubstituteAll(LiteralReplace(text, Token(entries[i][1]), entries[i][2]),
                            entries, i + 1)

\* C9: the text written back is the template's text with, for each seed pair
\* in turn, the first occurrence of its token replaced by the value itself.
C9_LiteralFirstOccurrence ==
  tpc = "written" => tfile = LiteralSubstituteAll(template, seed, 1)

====
